---- MODULE Spec2Model ----
(***************************************************************************)
(* masto-rss: the feed-check tick of the Mastodon RSS bot.                 *)
(*                                                                         *)
(* Two programs share the state file of processed entry links:             *)
(*   "bot"  - MastodonRSSBot.process_new_entries (bot.py): every new entry *)
(*            of every configured feed is posted, the set is saved once    *)
(*            at the end of the pass;                                      *)
(*   "main" - check_and_post_new_items (main.py): only entry 0 of the one  *)
(*            feed is considered, the set is saved right after the post.   *)
(*                                                                         *)
(* A string is a sequence of one-character strings, so that join and       *)
(* splitlines are computed on the text the file really holds.              *)
(***************************************************************************)
EXTENDS Integers, Sequences, FiniteSets, TLC

\* ------------------------------------------------------------------ bounds

\* Entries one feed serves at most.
MaxEntries == 2

\* The greatest id of a mention.
MaxId == 3

\* The longest check_interval and notification_check_interval, in seconds.
MaxInterval == 2

\* The longest time one feed check or one notification check takes, in
\* seconds.
MaxDuration == 3

\* The most members of a store that is saved and loaded back.
MaxStored == 2

\* The greatest capacity of a bounded store.
MaxCapacity == 2

\* ------------------------------------------------------------------ inputs

LF == "\n"

\* str.splitlines ends a line at "\n" and also at "\r", "\v", "\f", "\x1c",
\* "\x1d", "\x1e", "\x85", "\u2028" and "\u2029": "\f" stands for these.
FF == "\f"

LineBoundaries == {LF, FF}

\* entry.get("link", ""): a missing link and an empty one are both falsy.
NoLink == <<>>

\* The links the feeds may carry: single-line identifiers (the state file is
\* one identifier per line) and the missing link.
EntryLinks == {<<"a">>, <<"b">>}

Links == EntryLinks \cup {NoLink}

\* self.feed_urls: the configured feeds, in configured order.
feed_urls == <<"feed1", "feed2">>

\* feed.entries as one parse may return them: the links in feed order.
EntryLists == UNION {[1..n -> Links] : n \in 0..MaxEntries}

\* What parse_feed may hand to process_feed: None or an object without
\* entries (parsed FALSE), or the entries.
NotParsed == [parsed |-> FALSE, entries |-> <<>>]

Parsed(entries) == [parsed |-> TRUE, entries |-> entries]

ParseResults == {NotParsed} \cup {Parsed(e) : e \in EntryLists}

\* ----------------------------------------------------------------- strings

\* Code points, for the order sorted() uses.
Ord(c) == CASE c = LF -> 10 [] c = FF -> 12 [] c = "a" -> 97 [] c = "b" -> 98

RECURSIVE StrLess(_, _)
StrLess(s, t) ==
    IF s = <<>> THEN t # <<>>
    ELSE IF t = <<>> THEN FALSE
    ELSE IF Head(s) = Head(t) THEN StrLess(Tail(s), Tail(t))
    ELSE Ord(Head(s)) < Ord(Head(t))

\* sorted(processed_entries)
RECURSIVE sorted(_)
sorted(S) ==
    IF S = {} THEN <<>>
    ELSE LET m == CHOOSE x \in S : \A y \in S \ {x} : StrLess(x, y)
         IN  <<m>> \o sorted(S \ {m})

\* Every order in which iterating a set may yield its members (main.py joins
\* the set as it iterates).
RECURSIVE orders(_)
orders(S) ==
    IF S = {} THEN {<<>>}
    ELSE UNION {{<<x>> \o r : r \in orders(S \ {x})} : x \in S}

\* sep.join(strs)
RECURSIVE join(_, _)
join(sep, strs) ==
    IF strs = <<>> THEN <<>>
    ELSE IF Len(strs) = 1 THEN strs[1]
    ELSE strs[1] \o sep \o join(sep, Tail(strs))

\* Position of the first line break of text, 0 when it has none.
RECURSIVE FirstBreak(_, _)
FirstBreak(text, i) ==
    IF i > Len(text) THEN 0
    ELSE IF text[i] \in LineBoundaries THEN i
    ELSE FirstBreak(text, i + 1)

\* text.splitlines(): a final line break opens no further line.
RECURSIVE splitlines(_)
splitlines(text) ==
    IF text = <<>> THEN <<>>
    ELSE LET i == FirstBreak(text, 1)
         IN  IF i = 0 THEN <<text>>
             ELSE <<SubSeq(text, 1, i - 1)>> \o splitlines(SubSeq(text, i + 1, Len(text)))

Range(f) == {f[i] : i \in DOMAIN f}

\* A blank: what strip() takes off the ends of a string.
SP == " "

RECURSIVE lstrip(_)
lstrip(text) ==
    IF text # <<>> /\ Head(text) = SP THEN lstrip(Tail(text)) ELSE text

RECURSIVE rstrip(_)
rstrip(text) ==
    IF text # <<>> /\ text[Len(text)] = SP
    THEN rstrip(SubSeq(text, 1, Len(text) - 1))
    ELSE text

\* text.strip()
strip(text) == rstrip(lstrip(text))

\* [item.strip() for item in items]
trimmed(items) == [i \in DOMAIN items |-> strip(items[i])]

\* -------------------------------------------------------------- state file

NoFile == [exists |-> FALSE, text |-> <<>>]

FileWith(text) == [exists |-> TRUE, text |-> text]

\* A load that forgets the file: every pass starts from the empty store.
load_nothing(file, readOk) == {}

\* MastodonRSSBot.load_processed_entries: readOk is whether read_text
\* returned; a read error is logged and yields the empty set.
load_processed_entries(file, readOk) ==
    IF ~file.exists THEN {}
    ELSE IF readOk THEN Range(splitlines(file.text))
    ELSE {}

\* What an attempted write_text(text) may leave behind, with whether it
\* returned: the whole text; the old file (mkdir or open raised); or, the file
\* being truncated on open, a proper prefix of the text (the write raised).
write_text(file, text) ==
    {[file |-> FileWith(text), ok |-> TRUE], [file |-> file, ok |-> FALSE]}
    \cup {[file |-> FileWith(SubSeq(text, 1, k)), ok |-> FALSE] : k \in 0..(Len(text) - 1)}

\* A save that writes the sorted members one after the other.
save_processed_entries_unseparated(file, entries) ==
    write_text(file, join(<<>>, sorted(entries)))

\* MastodonRSSBot.save_processed_entries: the exception is logged, not raised.
save_processed_entries(file, entries) ==
    write_text(file, join(<<LF>>, sorted(entries)))

\* ------------------------------------------------------ bot.py: one pass

\* mastodon.status_post returns or raises: post_to_mastodon's True or False.
post_to_mastodon == BOOLEAN

\* A status_post call of the pass: the entry's link, whether it returned, and
\* the place of the entry (index of the feed in feed_urls, index in entries).
Post(url, ok, f, i) == [link |-> url, ok |-> ok, feed |-> f, idx |-> i]

\* A pass that drops no entry, whatever its link.
skip_nothing(entry_url) == FALSE

\* process_feed, `if not entry_url: continue`.
skip_entry(entry_url) == entry_url = NoLink

\* A pass that takes every entry for a new one.
is_always_new(entry_url, processed) == TRUE

\* process_feed, `if entry_url not in processed_entries`.
is_new(entry_url, processed) == entry_url \notin processed

\* A pass that accepts the entry into the store whether or not the post
\* succeeded.
post_entry_accepting_failure(st, entry_url, ok, f, i) ==
    [processed_entries |-> st.processed_entries \cup {entry_url},
     posts |-> Append(st.posts, Post(entry_url, ok, f, i)),
     count |-> IF ok THEN st.count + 1 ELSE st.count]

\* process_feed, the post and what follows it: on True the link is added and
\* counted, on False only logged.
post_entry(st, entry_url, ok, f, i) ==
    [processed_entries |-> IF ok THEN st.processed_entries \cup {entry_url}
                                 ELSE st.processed_entries,
     posts             |-> Append(st.posts, Post(entry_url, ok, f, i)),
     count             |-> IF ok THEN st.count + 1 ELSE st.count]

\* A loop over the entries that gives the feed up at the first post that
\* fails.
RECURSIVE process_entries_until_failure(_, _, _, _)
process_entries_until_failure(f, entries, i, st) ==
    IF i > Len(entries) THEN {st}
    ELSE IF skip_entry(entries[i]) THEN process_entries_until_failure(f, entries, i + 1, st)
    ELSE IF is_new(entries[i], st.processed_entries)
         THEN {post_entry(st, entries[i], FALSE, f, i)}
              \cup process_entries_until_failure(f, entries, i + 1,
                                                 post_entry(st, entries[i], TRUE, f, i))
         ELSE process_entries_until_failure(f, entries, i + 1, st)

\* A loop over the entries from the last to the first.
RECURSIVE process_entries_reversed(_, _, _, _)
process_entries_reversed(f, entries, i, st) ==
    LET k == Len(entries) + 1 - i
    IN IF i > Len(entries) THEN {st}
       ELSE IF skip_entry(entries[k]) THEN process_entries_reversed(f, entries, i + 1, st)
       ELSE IF is_new(entries[k], st.processed_entries)
            THEN UNION {process_entries_reversed(f, entries, i + 1,
                                                 post_entry(st, entries[k], ok, f, k))
                          : ok \in post_to_mastodon}
            ELSE process_entries_reversed(f, entries, i + 1, st)

\* process_feed, `for entry in feed.entries`, from entry i on: every way the
\* loop may end, one per choice of the posts' results.
RECURSIVE process_entries(_, _, _, _)
process_entries(f, entries, i, st) ==
    IF i > Len(entries) THEN {st}
    ELSE IF skip_entry(entries[i]) THEN process_entries(f, entries, i + 1, st)
    ELSE IF is_new(entries[i], st.processed_entries)
         THEN UNION {process_entries(f, entries, i + 1, post_entry(st, entries[i], ok, f, i))
                       : ok \in post_to_mastodon}
         ELSE process_entries(f, entries, i + 1, st)

\* A process_feed that works on a copy of the store: what it accepts is
\* counted and never reaches the store the feeds of the pass share.
process_feed_on_copy(f, feed, st) ==
    IF ~feed.parsed THEN {st}
    ELSE {[r EXCEPT !.processed_entries = st.processed_entries]
            : r \in process_entries(f, feed.entries, 1, st)}

\* process_feed: parse_feed returned None (feedparser raised) or an object
\* without entries: the feed adds nothing.
process_feed(f, feed, st) ==
    IF ~feed.parsed THEN {st} ELSE process_entries(f, feed.entries, 1, st)

\* A pass that ends at the first feed that could not be parsed.
RECURSIVE process_feeds_until_failure(_, _, _)
process_feeds_until_failure(f, feeds, sts) ==
    IF f > Len(feed_urls) THEN sts
    ELSE IF ~feeds[f].parsed THEN sts
    ELSE process_feeds_until_failure(f + 1, feeds,
                                     UNION {process_feed(f, feeds[f], st) : st \in sts})

\* process_new_entries, `for feed_url in self.feed_urls`, from feed f on.
RECURSIVE process_feeds(_, _, _)
process_feeds(f, feeds, sts) ==
    IF f > Len(feed_urls) THEN sts
    ELSE process_feeds(f + 1, feeds, UNION {process_feed(f, feeds[f], st) : st \in sts})

\* What a tick leaves: the file, and what the tick did. read_ok: the load
\* raised nothing; save_ok: no save raised; crashed: an exception left the tick.
Outcome(file, loaded, st, saves, read_ok, save_ok, crashed) ==
    [file |-> file, loaded |-> loaded, processed_entries |-> st.processed_entries,
     posts |-> st.posts, count |-> st.count, saves |-> saves, read_ok |-> read_ok,
     save_ok |-> save_ok, crashed |-> crashed]

\* A pass that never saves.
save_never(file, loaded, st, read_ok) ==
    {Outcome(file, loaded, st, 0, read_ok, TRUE, FALSE)}

\* A pass that saves whether or not it accepted an entry.
save_always(file, loaded, st, read_ok) ==
    {Outcome(w.file, loaded, st, 1, read_ok, w.ok, FALSE)
       : w \in save_processed_entries(file, st.processed_entries)}

\* A pass whose save raises its exception to the caller of the pass.
save_raising(file, loaded, st, read_ok) ==
    IF st.count > 0
    THEN {Outcome(w.file, loaded, st, 1, read_ok, w.ok, ~w.ok)
            : w \in save_processed_entries(file, st.processed_entries)}
    ELSE {Outcome(file, loaded, st, 0, read_ok, TRUE, FALSE)}

\* process_new_entries, `if total_new_entries > 0: save`.
save_if_new(file, loaded, st, read_ok) ==
    IF st.count > 0
    THEN {Outcome(w.file, loaded, st, 1, read_ok, w.ok, FALSE)
            : w \in save_processed_entries(file, st.processed_entries)}
    ELSE {Outcome(file, loaded, st, 0, read_ok, TRUE, FALSE)}

\* MastodonRSSBot.process_new_entries: every outcome of one pass over what the
\* feeds' parses returned, readOk being whether read_text returned.
process_new_entries(file, feeds, readOk) ==
    LET loaded == load_processed_entries(file, readOk)
        st0    == [processed_entries |-> loaded, posts |-> <<>>, count |-> 0]
    IN  UNION {save_if_new(file, loaded, st, readOk \/ ~file.exists)
                 : st \in process_feeds(1, feeds, {st0})}

\* ----------------------------------------------------- main.py: one tick

\* main.py save_processed_entries: '\n'.join(processed_entries) joins the set
\* in whatever order it iterates; an exception is raised to the caller.
main_save_processed_entries(file, entries) ==
    UNION {write_text(file, join(<<LF>>, order)) : order \in orders(entries)}

\* main.py load_processed_entries: only FileNotFoundError is caught.
main_load_processed_entries(file) ==
    IF file.exists THEN Range(splitlines(file.text)) ELSE {}

\* check_and_post_new_items, the branch of a new latest entry: status_post,
\* then add and save, all inside one try whose except only prints.
post_latest(file, loaded, entry_url) ==
    LET st0 == [processed_entries |-> loaded, posts |-> <<>>, count |-> 0]
    IN  {Outcome(file, loaded, post_entry(st0, entry_url, FALSE, 1, 1), 0, TRUE, TRUE, FALSE)}
        \cup {Outcome(w.file, loaded, post_entry(st0, entry_url, TRUE, 1, 1), 1, TRUE, w.ok, FALSE)
                : w \in main_save_processed_entries(file, loaded \cup {entry_url})}

\* A tick that takes the last entry of the feed for the latest.
oldest_entry(entries) == entries[Len(entries)]

\* check_and_post_new_items, feed.entries[0] when there is one.
latest_entry(entries) == entries[1]

\* check_and_post_new_items, one iteration of `while True`: every outcome.
\* readOk: os.makedirs and open raised nothing but FileNotFoundError;
\* feed.parsed: feedparser.parse returned. Neither call is inside a try: the
\* exception ends the process.
check_and_post_new_items(file, feed, readOk) ==
    LET loaded == main_load_processed_entries(file)
        st0    == [processed_entries |-> loaded, posts |-> <<>>, count |-> 0]
        none   == [processed_entries |-> {}, posts |-> <<>>, count |-> 0]
    IN  IF ~readOk THEN {Outcome(file, {}, none, 0, FALSE, TRUE, TRUE)}
        ELSE IF ~feed.parsed THEN {Outcome(file, loaded, st0, 0, TRUE, TRUE, TRUE)}
        ELSE IF feed.entries = <<>> THEN {Outcome(file, loaded, st0, 0, TRUE, TRUE, FALSE)}
        ELSE IF skip_entry(latest_entry(feed.entries))
             THEN {Outcome(file, loaded, st0, 0, TRUE, TRUE, FALSE)}
        ELSE IF is_new(latest_entry(feed.entries), loaded)
             THEN post_latest(file, loaded, latest_entry(feed.entries))
        ELSE {Outcome(file, loaded, st0, 0, TRUE, TRUE, FALSE)}

\* ------------------------------------- bot.py: the notification check

\* self.last_notification_id before the first notification check.
None == <<>>

\* self.last_notification_id holding the id n.
Some(n) == <<n>>

\* A mention the server holds: its id, and whether it carries a status with
\* an account (reply_to_mention returns at once for one that does not).
Note(id, status) == [id |-> id, status |-> status]

Notes == {Note(id, status) : id \in 1..MaxId, status \in BOOLEAN}

\* The ids of a set of notes.
Ids(notes) == {n.id : n \in notes}

\* The watermark set to the id of the note at hand.
max_latest(a, b) == b

\* The built-in max of Python, on two integers.
max(a, b) == IF b > a THEN b ELSE a

\* The greatest of a non-empty set of integers.
Greatest(S) == CHOOSE x \in S : \A y \in S : y <= x

\* The built-in message, "I am a bot. Beep boop.", shortened.
DefaultMessage == <<"b", "e", "e", "p">>

\* A line of the messages file that is not blank.
NonBlank(line) == strip(line) # <<>>

\* load_sarcastic_messages: the default message when the file is missing or
\* reading it raises, else the non-blank lines of the file, each stripped;
\* none when the file holds no such line.
load_sarcastic_messages(messages_file, read_ok) ==
    IF ~messages_file.exists THEN <<DefaultMessage>>
    ELSE IF ~read_ok THEN <<DefaultMessage>>
    ELSE trimmed(SelectSeq(splitlines(messages_file.text), NonBlank))

\* The messages files a bot is constructed over: a missing file, an empty
\* one, one of blank lines only, and files of one and of two messages.
MessagesFiles ==
    {NoFile, FileWith(<<>>), FileWith(<<SP, LF, LF, SP>>),
     FileWith(<<"a", LF>>), FileWith(<<SP, "a", SP, LF, LF, "b">>)}

\* The lists of messages a constructed bot holds.
MessageLists ==
    {load_sarcastic_messages(f, ok) : f \in MessagesFiles, ok \in BOOLEAN}

\* A fetch of one mention that hands out the oldest.
notifications_oldest(held) ==
    IF held = {} THEN <<>>
    ELSE <<CHOOSE n \in held : \A m \in held : n.id <= m.id>>

\* mastodon.notifications(types=['mention'], limit=1): the most recent
\* mention, if any.
notifications_latest(held) ==
    IF held = {} THEN <<>>
    ELSE <<CHOOSE n \in held : n.id = Greatest(Ids(held))>>

\* A fetch that hands out every mention held, whatever since_id is.
notifications_all(held, since_id) == orders(held)

\* mastodon.notifications(types=['mention'], since_id=...): the mentions with
\* a greater id, in the order the server hands them out (the code sorts
\* nothing, so any order).
notifications_since(held, since_id) ==
    orders({n \in held : n.id > since_id})

\* The reply of the tick to one note: "none" (no status or no account),
\* "raised" (random.choice of no message: the exception leaves
\* reply_to_mention), "posted" or "failed" (status_post returned or raised,
\* the latter caught and logged in reply_to_mention).
reply_to_mention(note, messages) ==
    IF ~note.status THEN {"none"}
    ELSE IF messages = <<>> THEN {"raised"}
    ELSE {"posted", "failed"}

\* A reply of the tick: the note's id and how reply_to_mention ended.
Reply(id, how) == [id |-> id, how |-> how]

\* A loop over the notes that a dismissal that raises ends.
RECURSIVE reply_to_notifications_until_undismissed(_, _, _, _)
reply_to_notifications_until_undismissed(notes, i, messages, st) ==
    IF i > Len(notes) THEN {st}
    ELSE LET seen == [st EXCEPT !.last_notification_id =
                                    max(st.last_notification_id, notes[i].id)]
         IN UNION {
              IF how = "raised"
              THEN {[seen EXCEPT !.replies = Append(@, Reply(notes[i].id, how)),
                                 !.raised = TRUE]}
              ELSE {[seen EXCEPT !.replies = Append(@, Reply(notes[i].id, how)),
                                 !.raised = TRUE]}
                   \cup reply_to_notifications_until_undismissed(notes, i + 1, messages,
                           [seen EXCEPT !.replies = Append(@, Reply(notes[i].id, how)),
                                        !.dismissed = @ \cup {notes[i].id}])
              : how \in reply_to_mention(notes[i], messages)}

\* The body of `for note in notifications` for note i, and the rest of the
\* loop: every way it may end. The watermark is raised first, then the reply
\* is made, then the note is dismissed (a dismissal that raises is passed
\* over).
RECURSIVE reply_to_notifications(_, _, _, _)
reply_to_notifications(notes, i, messages, st) ==
    IF i > Len(notes) THEN {st}
    ELSE LET seen == [st EXCEPT !.last_notification_id =
                                    max(st.last_notification_id, notes[i].id)]
         IN UNION {
              IF how = "raised"
              THEN {[seen EXCEPT !.replies = Append(@, Reply(notes[i].id, how)),
                                 !.raised = TRUE]}
              ELSE UNION {
                     reply_to_notifications(notes, i + 1, messages,
                        [seen EXCEPT !.replies = Append(@, Reply(notes[i].id, how)),
                                     !.dismissed = IF gone THEN @ \cup {notes[i].id} ELSE @])
                     : gone \in BOOLEAN}
              : how \in reply_to_mention(notes[i], messages)}

\* What a notification check did: the watermark before and after it, the
\* batch fetched, the replies in the order made, the ids dismissed, whether
\* an exception ended it (caught and logged in check_notifications), and
\* whether it was a first run.
Checked(before, after, batch, replies, dismissed, raised, first) ==
    [before |-> before, last_notification_id |-> after, batch |-> batch,
     replies |-> replies, dismissed |-> dismissed, raised |-> raised, first |-> first]

\* A check that forgets the watermark when its fetch raises.
check_notifications_resetting(last, messages, held, fetched) ==
    IF ~fetched THEN {Checked(last, None, <<>>, <<>>, {}, TRUE, last = None)}
    ELSE IF last = None
    THEN LET notes == notifications_latest(held)
         IN {Checked(last, IF notes # <<>> THEN Some(notes[1].id) ELSE Some(0),
                     notes, <<>>, {}, FALSE, TRUE)}
    ELSE UNION {
           {Checked(last, Some(st.last_notification_id), notes, st.replies,
                    st.dismissed, st.raised, FALSE)
              : st \in reply_to_notifications(notes, 1, messages,
                          [last_notification_id |-> last[1], replies |-> <<>>,
                           dismissed |-> {}, raised |-> FALSE])}
           : notes \in notifications_since(held, last[1])}

\* A check that goes through the batch and leaves the watermark where the
\* fetch found it.
check_notifications_unadvanced(last, messages, held, fetched) ==
    IF ~fetched THEN {Checked(last, last, <<>>, <<>>, {}, TRUE, last = None)}
    ELSE IF last = None
    THEN LET notes == notifications_latest(held)
         IN {Checked(last, IF notes # <<>> THEN Some(notes[1].id) ELSE Some(0),
                     notes, <<>>, {}, FALSE, TRUE)}
    ELSE UNION {
           {Checked(last, last, notes, st.replies, st.dismissed, st.raised, FALSE)
              : st \in reply_to_notifications(notes, 1, messages,
                          [last_notification_id |-> last[1], replies |-> <<>>,
                           dismissed |-> {}, raised |-> FALSE])}
           : notes \in notifications_since(held, last[1])}

\* A check that takes a first-run fetch that raised for one that found no
\* mention, and starts from the beginning.
check_notifications_seeding_anyway(last, messages, held, fetched) ==
    IF ~fetched
    THEN {Checked(last, IF last = None THEN Some(0) ELSE last, <<>>, <<>>, {}, TRUE,
                  last = None)}
    ELSE IF last = None
    THEN LET notes == notifications_latest(held)
         IN {Checked(last, IF notes # <<>> THEN Some(notes[1].id) ELSE Some(0),
                     notes, <<>>, {}, FALSE, TRUE)}
    ELSE UNION {
           {Checked(last, Some(st.last_notification_id), notes, st.replies,
                    st.dismissed, st.raised, FALSE)
              : st \in reply_to_notifications(notes, 1, messages,
                          [last_notification_id |-> last[1], replies |-> <<>>,
                           dismissed |-> {}, raised |-> FALSE])}
           : notes \in notifications_since(held, last[1])}

\* MastodonRSSBot.check_notifications: fetched is whether
\* mastodon.notifications returned.
check_notifications(last, messages, held, fetched) ==
    IF ~fetched THEN {Checked(last, last, <<>>, <<>>, {}, TRUE, last = None)}
    ELSE IF last = None
    THEN LET notes == notifications_latest(held)
         IN {Checked(last, IF notes # <<>> THEN Some(notes[1].id) ELSE Some(0),
                     notes, <<>>, {}, FALSE, TRUE)}
    ELSE UNION {
           {Checked(last, Some(st.last_notification_id), notes, st.replies,
                    st.dismissed, st.raised, FALSE)
              : st \in reply_to_notifications(notes, 1, messages,
                          [last_notification_id |-> last[1], replies |-> <<>>,
                           dismissed |-> {}, raised |-> FALSE])}
           : notes \in notifications_since(held, last[1])}

\* ------------------------------------------------ bot.py: the run loop

\* run, `time.sleep(1)`: the idle sleep of an iteration, in seconds.
IDLE == 1

\* run, `time.sleep(5)`: the sleep after an exception, in seconds.
BACKOFF == 5

\* The loop compares the clock with next_feed_check and
\* next_notification_check and does nothing else with them, so both are kept
\* as the seconds left until they are reached, for the clock reading of the
\* iteration to come: 0 is `current_time >= next_..._check`.
is_due(next_check) == next_check = 0

\* A time to come, seconds seconds later.
later(next_check, seconds) == IF next_check > seconds THEN next_check - seconds ELSE 0

\* A time gone by, seconds seconds later; counted no further than the
\* longest interval.
longer(since, seconds) ==
    IF since + seconds > MaxInterval THEN MaxInterval ELSE since + seconds

\* `next_..._check = current_time + interval`, seen seconds after
\* current_time was read.
next_check_after(interval, seconds) == later(interval, seconds)

\* The notification check reached only from a feed check that returned.
reaches_after_feed_check(feed_check) == feed_check = "returned"

\* `if current_time >= next_notification_check`: reached when the feed check
\* of the iteration was not due or has returned.
reaches_notification_check(feed_check) == feed_check \in {"skipped", "returned"}

\* The state files the programs can leave behind.
Files ==
    {NoFile} \cup {w.file : w \in UNION {save_processed_entries(NoFile, S)
                                           : S \in SUBSET EntryLinks}}

\* What run sees of a pass: the file it found, the file it leaves, the
\* count it returns, the saves it made.
Pass(found, file, count, saves) ==
    [found |-> found, file |-> file, count |-> count, saves |-> saves]

\* What the feeds serve while the loop is followed: an entry each at most.
\* (The passes over longer feeds are followed one by one in Spec.)
LoopFeeds ==
    {feeds \in [1..Len(feed_urls) -> ParseResults] :
        \A f \in DOMAIN feeds : Len(feeds[f].entries) <= 1}

\* process_new_entries as called from run, for every state file: the passes
\* it may make, over what the feeds may serve and all the posts may do.
PassTable ==
    UNION {{Pass(file, r.file, r.count, r.saves)
              : r \in UNION {process_new_entries(file, feeds, readOk)
                               : feeds \in LoopFeeds, readOk \in BOOLEAN}}
             : file \in Files}

\* A feed list cut after entry i of feed f: what a pass has gone through
\* when it is there.
cut_feeds(feeds, f, i) ==
    [g \in DOMAIN feeds |->
        IF g < f THEN feeds[g]
        ELSE IF g = f /\ feeds[g].parsed /\ i < Len(feeds[g].entries)
             THEN Parsed(SubSeq(feeds[g].entries, 1, i))
        ELSE IF g = f THEN feeds[g]
        ELSE NotParsed]

\* process_new_entries left by a KeyboardInterrupt: post_to_mastodon and the
\* other handlers of the pass catch Exception only, so the interrupt, raised
\* wherever the pass is, goes up to run and the save is not reached. The
\* file is as it was, whatever the pass has accepted.
interrupted_process_new_entries(file, feeds, readOk) ==
    LET loaded == load_processed_entries(file, readOk)
        st0 == [processed_entries |-> loaded, posts |-> <<>>, count |-> 0]
    IN UNION {
         {Outcome(file, loaded, st, 0, readOk \/ ~file.exists, TRUE, TRUE)
            : st \in process_feeds(1, cut_feeds(feeds, f, i), {st0})}
         : f \in DOMAIN feeds, i \in 0..MaxEntries}

\* The interrupted passes run may see, for every state file.
InterruptedTable ==
    UNION {{Pass(file, r.file, r.count, r.saves)
              : r \in UNION {interrupted_process_new_entries(file, feeds, readOk)
                               : feeds \in LoopFeeds, readOk \in BOOLEAN}}
             : file \in Files}

\* The rows of a table for the state file as it is.
PassesOver(table, file) == {pass \in table : pass.found = file}

\* What an iteration of the loop did: how the feed check went ("skipped",
\* "returned", "raised", "interrupted") and the notification check
\* ("skipped", "ran"), how long the feed check took, how long before it the
\* feed check before had returned and the notification check before had
\* started, and the count and the saves of the pass.
Iteration(feed_check, notification_check, took, feed_gap, notification_gap, pass) ==
    [feed |-> feed_check, notification |-> notification_check, took |-> took,
     feed_gap |-> feed_gap, notification_gap |-> notification_gap,
     count |-> pass.count, saves |-> pass.saves]

\* ------------------------------------------------------------------- state

VARIABLES
    program,            \* "bot" (bot.py) or "main" (main.py): which one is deployed
    state_file,         \* the state file: [exists, text]
    pc,                 \* "idle" between ticks, "ran" when a tick has just ended
    feed,               \* per configured feed: what its parse returned at the tick
    ran,                \* what the tick did: an Outcome
    prev,               \* the tick before, when the feeds are the same as then
    posted_before,      \* links a post succeeded for in an earlier tick
    failed_before,      \* links a post failed for in an earlier tick
    io_failed,          \* an earlier tick failed to read or to write the file
    last_notification_id,   \* self.last_notification_id: None or Some(id)
    sarcastic_messages,     \* self.sarcastic_messages
    mentions,           \* the server: the mentions it holds, the last id it gave
    checked,            \* what the notification check did: a Checked
    told,               \* the earlier notification checks: ids a reply post
                        \* failed for, ids held before the first check, ids
                        \* status_post was called for, whether one raised,
                        \* whether a first-run fetch returned, or raised
    check_interval,             \* self.check_interval, in seconds
    notification_check_interval,    \* self.notification_check_interval, in seconds
    next_feed_check,            \* run: seconds until next_feed_check is reached
    next_notification_check,    \* run: seconds until next_notification_check is reached
    since,              \* seconds since the last feed check returned and since
                        \* the last notification check started
    iteration,          \* what the last iteration of the loop did: an Iteration
    passes,             \* run: what process_new_entries may do with each state
                        \* file, worked out once when the loop starts
    store,              \* a store in memory, saved to the state file and loaded
                        \* back: a StoreTrip
    ring,               \* the dedup store under the bounded policy: a Ring
    startup,            \* main.py before its loop: the environment, how far
                        \* the start went, the exit status
    feed_list           \* the feed list of the entry point: its three sources
                        \* and the list built from them

history == <<posted_before, failed_before, io_failed>>

\* The state of the feed check, and that of the notification check.
feeds_state == <<state_file, feed, ran, prev, posted_before, failed_before, io_failed>>

tracker == <<last_notification_id, sarcastic_messages, mentions, checked, told>>

\* The state of the run loop.
driver == <<check_interval, notification_check_interval, next_feed_check,
            next_notification_check, since, iteration, passes>>

\* What is followed apart from the ticks: the store's file format, the
\* bounded policy, the start of the process.
apart == <<store, ring, startup, feed_list>>

vars == <<program, state_file, pc, feed, ran, prev, posted_before, failed_before, io_failed,
          last_notification_id, sarcastic_messages, mentions, checked, told,
          check_interval, notification_check_interval, next_feed_check,
          next_notification_check, since, iteration, passes,
          store, ring, startup, feed_list>>

NoFeeds == [f \in 1..Len(feed_urls) |-> NotParsed]

NoRun == Outcome(NoFile, {}, [processed_entries |-> {}, posts |-> <<>>, count |-> 0],
                 0, TRUE, TRUE, FALSE)

NoPrev == [known |-> FALSE, posts_ok |-> TRUE, save_ok |-> TRUE, count |-> 0]

\* The links of the posts of a tick that returned, and of those that raised.
PostedOk(posts) == {posts[i].link : i \in {j \in DOMAIN posts : posts[j].ok}}

PostedFailed(posts) == {posts[i].link : i \in {j \in DOMAIN posts : ~posts[j].ok}}

\* Before any notification check.
NoCheck == Checked(None, None, <<>>, <<>>, {}, FALSE, FALSE)

NoMentions == [held |-> {}, issued |-> 0]

NothingTold ==
    [failed |-> {}, old |-> {}, ticked |-> FALSE, tried |-> {}, raised |-> FALSE,
     seeded |-> FALSE, seed_raised |-> FALSE]

\* MastodonRSSBot.__init__ as far as the notification check goes, with the
\* messages file missing: `self.last_notification_id = None`.
NoTracker ==
    /\ last_notification_id = None
    /\ sarcastic_messages = <<DefaultMessage>>
    /\ mentions = NoMentions
    /\ checked = NoCheck
    /\ told = NothingTold

\* Before any iteration of the loop.
NoIteration == Iteration("skipped", "skipped", 0, MaxInterval, MaxInterval, Pass(NoFile, NoFile, 0, 0))

\* Where the loop is left aside, no pass of it is worked out.
NoPasses == [made |-> {}, interrupted |-> {}]

\* No check has been made yet: as long ago as the longest interval.
LongAgo == [feed |-> MaxInterval, notification |-> MaxInterval]

\* run before its loop, `next_feed_check = 0` and
\* `next_notification_check = 0` (both due at once), with the longest
\* intervals.
NoDriver ==
    /\ check_interval = MaxInterval
    /\ notification_check_interval = MaxInterval
    /\ next_feed_check = 0
    /\ next_notification_check = 0
    /\ since = LongAgo
    /\ iteration = NoIteration
    /\ passes = NoPasses

\* Where the ticks are followed, nothing is followed apart from them.
NoApart ==
    /\ store = <<>>
    /\ ring = <<>>
    /\ startup = <<>>
    /\ feed_list = <<>>

\* A fresh deployment: no state file yet (bot.py load_processed_entries,
\* `if not self.state_file.exists()`).
Init ==
    /\ NoTracker
    /\ NoDriver
    /\ NoApart
    /\ program \in {"bot", "main"}
    /\ state_file = NoFile
    /\ pc = "idle"
    /\ feed = NoFeeds
    /\ ran = NoRun
    /\ prev = NoPrev
    /\ posted_before = {}
    /\ failed_before = {}
    /\ io_failed = FALSE

\* What the feeds may return at this tick: anything, or, in a run that keeps
\* the feeds unchanged since the tick before, what they returned then.
Served(results) == IF prev.known THEN {feed} ELSE results

\* The feed check of bot.py's run loop: one process_new_entries.
ProcessNewEntries ==
    /\ pc = "idle"
    /\ program = "bot"
    /\ \E feeds \in Served([1..Len(feed_urls) -> ParseResults]), readOk \in BOOLEAN :
         \E r \in process_new_entries(state_file, feeds, readOk) :
            /\ feed' = feeds
            /\ ran' = r
            /\ state_file' = r.file
    /\ pc' = "ran"
    /\ UNCHANGED <<program, apart, prev, history, tracker, driver>>

\* One iteration of main.py's loop, up to its sleep.
CheckAndPostNewItems ==
    /\ pc = "idle"
    /\ program = "main"
    /\ \E feeds \in Served({[NoFeeds EXCEPT ![1] = p] : p \in ParseResults}),
          readOk \in BOOLEAN :
         \E r \in check_and_post_new_items(state_file, feeds[1], readOk) :
            /\ feed' = feeds
            /\ ran' = r
            /\ state_file' = r.file
    /\ pc' = "ran"
    /\ UNCHANGED <<program, apart, prev, history, tracker, driver>>

\* What later ticks are compared with: the posts and the file errors so far.
Remember ==
    /\ posted_before' = posted_before \cup PostedOk(ran.posts)
    /\ failed_before' = failed_before \cup PostedFailed(ran.posts)
    /\ io_failed' = (io_failed \/ ~ran.read_ok \/ ~ran.save_ok)

\* time.sleep until the next tick is due (after an exception in main.py: the
\* restart of the process). Nothing of the tick but the state file is kept:
\* processed_entries is a local of the pass, and a freshly constructed bot
\* starts its pass from the same file.
Forget ==
    /\ pc = "ran"
    /\ pc' = "idle"
    /\ feed' = NoFeeds
    /\ ran' = NoRun
    /\ prev' = NoPrev
    /\ UNCHANGED <<program, apart, state_file, tracker, driver>>

Sleep == Forget /\ Remember

Next == ProcessNewEntries \/ CheckAndPostNewItems \/ Sleep

Spec == Init /\ [][Next]_vars

\* --------------------------------------------- ticks over unchanged feeds

\* The sleep of a run in which the next tick finds every feed returning what
\* it returned at this one.
SleepUnchanged ==
    /\ pc = "ran"
    /\ pc' = "idle"
    /\ prev' = [known |-> TRUE, posts_ok |-> PostedFailed(ran.posts) = {},
                save_ok |-> ran.save_ok, count |-> ran.count]
    /\ ran' = NoRun
    /\ UNCHANGED <<program, apart, state_file, feed, history, tracker, driver>>

SleepChanged == Forget /\ UNCHANGED history

NextUnchanged ==
    ProcessNewEntries \/ CheckAndPostNewItems \/ SleepUnchanged \/ SleepChanged

SpecUnchanged == Init /\ [][NextUnchanged]_vars

\* ------------------------------------------------ the notification checks

\* The bot of bot.py before its first notification check: the feed check
\* left aside, the messages file as it may be.
InitNotifications ==
    /\ NoApart
    /\ program = "bot"
    /\ state_file = NoFile
    /\ pc = "idle"
    /\ feed = NoFeeds
    /\ ran = NoRun
    /\ prev = NoPrev
    /\ posted_before = {}
    /\ failed_before = {}
    /\ io_failed = FALSE
    /\ last_notification_id = None
    /\ sarcastic_messages \in MessageLists
    /\ mentions = NoMentions
    /\ checked = NoCheck
    /\ told = NothingTold
    /\ NoDriver

\* Someone mentions the bot: the server gives the mention the next id.
Mention ==
    /\ pc = "idle"
    /\ mentions.issued < MaxId
    /\ \E status \in BOOLEAN :
         mentions' = [held |-> mentions.held \cup {Note(mentions.issued + 1, status)},
                      issued |-> mentions.issued + 1]
    /\ UNCHANGED <<program, apart, pc, feeds_state, last_notification_id, sarcastic_messages,
                   checked, told, driver>>

\* The notification check of bot.py's run loop: one check_notifications.
\* notifications_dismiss takes the note off the server's list.
CheckNotifications ==
    /\ pc = "idle"
    /\ \E fetched \in BOOLEAN :
         \E c \in check_notifications(last_notification_id, sarcastic_messages,
                                      mentions.held, fetched) :
            /\ checked' = c
            /\ last_notification_id' = c.last_notification_id
            /\ mentions' = [mentions EXCEPT
                              !.held = {n \in @ : n.id \notin c.dismissed}]
    /\ told' = IF told.ticked THEN told
               ELSE [told EXCEPT !.ticked = TRUE, !.old = Ids(mentions.held)]
    /\ pc' = "checked"
    /\ UNCHANGED <<program, apart, feeds_state, sarcastic_messages, driver>>

\* The ids of the replies of a tick that ended in one of the ways hows.
Replied(replies, hows) ==
    {replies[i].id : i \in {j \in DOMAIN replies : replies[j].how \in hows}}

\* The ids of the replies of a tick for which status_post was called.
Tried(replies) == Replied(replies, {"posted", "failed"})

\* The loop goes on until the next notification check is due.
Wait ==
    /\ pc = "checked"
    /\ pc' = "idle"
    /\ checked' = NoCheck
    /\ told' = [told EXCEPT !.failed = @ \cup Replied(checked.replies, {"failed"}),
                            !.tried = @ \cup Tried(checked.replies),
                            !.raised = @ \/ checked.raised,
                            !.seeded = @ \/ (checked.first /\ ~checked.raised),
                            !.seed_raised = @ \/ (checked.first /\ checked.raised)]
    /\ UNCHANGED <<program, apart, feeds_state, last_notification_id, sarcastic_messages,
                   mentions, driver>>

NextNotifications == Mention \/ CheckNotifications \/ Wait

SpecNotifications == InitNotifications /\ [][NextNotifications]_vars


\* ------------------------------------------------------------ the run loop

\* MastodonRSSBot.run before its loop, with the intervals as configured. No
\* mention arrives in these runs: the notification checks that find some are
\* those of SpecNotifications.
InitRun ==
    /\ NoApart
    /\ program = "bot"
    /\ state_file = NoFile
    /\ pc = "loop"
    /\ feed = NoFeeds
    /\ ran = NoRun
    /\ prev = NoPrev
    /\ posted_before = {}
    /\ failed_before = {}
    /\ io_failed = FALSE
    /\ NoTracker
    /\ check_interval \in 1..MaxInterval
    /\ notification_check_interval \in 1..MaxInterval
    /\ next_feed_check = 0
    /\ next_notification_check = 0
    /\ since = LongAgo
    /\ iteration = NoIteration
    /\ passes = [made |-> PassTable, interrupted |-> InterruptedTable]

\* How long a check may take: no time when it is not made.
Durations(due) == IF due THEN 0..MaxDuration ELSE {0}

\* The feed check of an iteration that returns: a pass over the state file.
FeedCheck(pass) ==
    /\ state_file' = pass.file
    /\ UNCHANGED <<feed, ran, prev, history>>

\* The notification check of an iteration.
NotificationCheck ==
    /\ \E fetched \in BOOLEAN :
         \E c \in check_notifications(last_notification_id, sarcastic_messages,
                                      mentions.held, fetched) :
            /\ checked' = c
            /\ last_notification_id' = c.last_notification_id
            /\ mentions' = [mentions EXCEPT
                              !.held = {n \in @ : n.id \notin c.dismissed}]
    /\ UNCHANGED <<sarcastic_messages, told>>

\* An iteration of `while True` that reaches its `time.sleep(1)`: the feed
\* check if due, then the notification check if due (both by the clock read
\* at the top of the iteration), each followed by the assignment of its next
\* time from that same reading.
Iterate ==
    /\ pc = "loop"
    /\ LET feed_due == is_due(next_feed_check)
           feed_check == IF feed_due THEN "returned" ELSE "skipped"
           notification_due == is_due(next_notification_check)
                               /\ reaches_notification_check(feed_check)
       IN \E pass \in IF feed_due THEN PassesOver(passes.made, state_file)
                      ELSE {Pass(state_file, state_file, 0, 0)},
             took \in Durations(feed_due), took_n \in Durations(notification_due) :
            LET seconds == took + took_n + IDLE
            IN /\ FeedCheck(pass)
               /\ IF notification_due THEN NotificationCheck ELSE UNCHANGED tracker
               /\ next_feed_check' =
                     IF feed_due THEN next_check_after(check_interval, seconds)
                     ELSE later(next_feed_check, seconds)
               /\ next_notification_check' =
                     IF notification_due
                     THEN next_check_after(notification_check_interval, seconds)
                     ELSE later(next_notification_check, seconds)
               /\ since' =
                     [feed |-> IF feed_due THEN longer(0, took_n + IDLE)
                               ELSE longer(since.feed, seconds),
                      notification |-> IF notification_due THEN longer(0, seconds)
                                       ELSE longer(since.notification, seconds)]
               /\ iteration' =
                     Iteration(feed_check,
                               IF notification_due THEN "ran" ELSE "skipped",
                               took, since.feed, longer(since.notification, 0), pass)
    /\ UNCHANGED <<program, apart, pc, check_interval, notification_check_interval, passes>>

\* An iteration whose feed check raises an exception that process_new_entries
\* does not catch (`self.state_file.exists()`, outside the try of
\* load_processed_entries, on a directory that may not be searched): run
\* logs it and sleeps 5 seconds; neither the assignment of next_feed_check
\* nor the notification check is reached.
IterateRaising ==
    /\ pc = "loop"
    /\ is_due(next_feed_check)
    /\ \E took \in Durations(TRUE) :
         LET seconds == took + BACKOFF
         IN /\ next_feed_check' = later(next_feed_check, seconds)
            /\ next_notification_check' = later(next_notification_check, seconds)
            /\ since' = [feed |-> longer(since.feed, seconds),
                         notification |-> longer(since.notification, seconds)]
            /\ iteration' = Iteration("raised", "skipped", took, since.feed,
                                      since.notification,
                                      Pass(state_file, state_file, 0, 0))
    /\ UNCHANGED <<program, apart, pc, feeds_state, tracker, check_interval,
                   notification_check_interval, passes>>

\* An interrupt signal while the feed check is under way: KeyboardInterrupt
\* goes up from wherever the pass is to `except KeyboardInterrupt: break`.
InterruptPass ==
    /\ pc = "loop"
    /\ is_due(next_feed_check)
    /\ \E pass \in PassesOver(passes.interrupted, state_file), took \in Durations(TRUE) :
         iteration' = Iteration("interrupted", "skipped", took, since.feed,
                                since.notification, pass)
    /\ pc' = "stopped"
    /\ UNCHANGED <<program, apart, feeds_state, tracker, check_interval,
                   notification_check_interval, next_feed_check,
                   next_notification_check, since, passes>>

\* An interrupt signal during `time.sleep(1)`: the loop ends between two
\* iterations.
InterruptSleep ==
    /\ pc = "loop"
    /\ pc' = "stopped"
    /\ UNCHANGED <<program, apart, feeds_state, tracker, driver>>

NextRun == Iterate \/ IterateRaising \/ InterruptPass \/ InterruptSleep

SpecRun == InitRun /\ [][NextRun]_vars

\* The loop never stops of itself: an iteration that can be made is made.
SpecRunFair == SpecRun /\ WF_vars(Iterate \/ IterateRaising)


\* ------------------------------------------- the store saved and loaded back

\* What a store may hold when it is saved: identifiers of one and of several
\* characters, and strings that are no identifiers (the empty one, and two
\* with a line boundary inside).
StoreIds ==
    {<<>>, <<"a">>, <<"b">>, <<"a", "b">>, <<"a", FF, "b">>, <<"b", LF, "a">>}

\* A store in memory on its way to the file and back: the members saved,
\* whether the directory of the state file exists, the members loaded back,
\* and whether the save and the read raised nothing.
StoreTrip(entries, dir, loaded, save_ok, read_ok) ==
    [entries |-> entries, dir |-> dir, loaded |-> loaded,
     save_ok |-> save_ok, read_ok |-> read_ok]

StoresToSave ==
    {S \in SUBSET StoreIds : Cardinality(S) <= MaxStored}

\* A bot with any store in memory, no state file yet, its directory there
\* or not.
InitStore ==
    /\ NoTracker
    /\ NoDriver
    /\ program = "bot"
    /\ state_file = NoFile
    /\ pc = "idle"
    /\ feed = NoFeeds
    /\ ran = NoRun
    /\ prev = NoPrev
    /\ posted_before = {}
    /\ failed_before = {}
    /\ io_failed = FALSE
    /\ store \in {StoreTrip(S, dir, {}, TRUE, TRUE) : S \in StoresToSave, dir \in BOOLEAN}
    /\ ring = <<>>
    /\ startup = <<>>
    /\ feed_list = <<>>

\* save_processed_entries(processed_entries): `mkdir(parents=True,
\* exist_ok=True)` and write_text in one try. A file that is there has its
\* directory.
SaveStore ==
    /\ pc = "idle"
    /\ \E w \in save_processed_entries(state_file, store.entries) :
         /\ state_file' = w.file
         /\ store' = [store EXCEPT !.save_ok = w.ok, !.dir = @ \/ w.file.exists]
    /\ pc' = "saved"
    /\ UNCHANGED <<program, feed, ran, prev, history, tracker, driver,
                   ring, startup, feed_list>>

\* load_processed_entries() by a bot that starts from the file.
LoadStore ==
    /\ pc = "saved"
    /\ \E readOk \in BOOLEAN :
         store' = [store EXCEPT
                     !.loaded = load_processed_entries(state_file, readOk),
                     !.read_ok = readOk \/ ~state_file.exists]
    /\ pc' = "loaded"
    /\ UNCHANGED <<program, feeds_state, tracker, driver, ring, startup, feed_list>>

\* Another store is in memory, to be saved over the file as it is.
NextStore ==
    /\ pc = "loaded"
    /\ \E S \in StoresToSave : store' = StoreTrip(S, store.dir, {}, TRUE, TRUE)
    /\ pc' = "idle"
    /\ UNCHANGED <<program, feeds_state, tracker, driver, ring, startup, feed_list>>

NextStoreTrip == SaveStore \/ LoadStore \/ NextStore

SpecStore == InitStore /\ [][NextStoreTrip]_vars

\* ------------------------------------------------- the bounded dedup policy

\* The identifiers a bounded store is offered.
RingIds == StoreIds \ {<<>>}

\* The dedup store under BoundedRing(capacity): its members from the oldest
\* to the newest, the members before the last accept, and the identifier
\* that accept was called with.
Ring(capacity, members, before, accepted) ==
    [capacity |-> capacity, members |-> members, before |-> before,
     accepted |-> accepted]

\* An accept that makes room by dropping the newest member.
accept_evicting_newest(members, capacity, id) ==
    IF id \in Range(members) THEN members
    ELSE IF Len(members) >= capacity
         THEN SubSeq(members, 1, Len(members) - 1) \o <<id>>
    ELSE members \o <<id>>

\* accept(id): inserts id; at capacity, evicts the oldest member first; a
\* no-op if id is already present.
accept(members, capacity, id) ==
    IF id \in Range(members) THEN members
    ELSE IF Len(members) >= capacity THEN Tail(members) \o <<id>>
    ELSE members \o <<id>>

\* An empty bounded store of any capacity.
InitRing ==
    /\ NoTracker
    /\ NoDriver
    /\ program = "bot"
    /\ state_file = NoFile
    /\ pc = "idle"
    /\ feed = NoFeeds
    /\ ran = NoRun
    /\ prev = NoPrev
    /\ posted_before = {}
    /\ failed_before = {}
    /\ io_failed = FALSE
    /\ store = <<>>
    /\ ring \in {Ring(capacity, <<>>, <<>>, <<>>) : capacity \in 1..MaxCapacity}
    /\ startup = <<>>
    /\ feed_list = <<>>

\* The publish pipeline accepts an identifier it has posted.
Accept ==
    /\ pc \in {"idle", "accepted"}
    /\ \E id \in RingIds :
         ring' = Ring(ring.capacity, accept(ring.members, ring.capacity, id),
                      ring.members, id)
    /\ pc' = "accepted"
    /\ UNCHANGED <<program, feeds_state, tracker, driver, store, startup, feed_list>>

NextRing == Accept

SpecRing == InitRing /\ [][NextRing]_vars

\* ---------------------------------------------------- main.py: the start

\* The environment variables main.py cannot do without.
RequiredVars ==
    {"MASTODON_CLIENT_ID", "MASTODON_CLIENT_SECRET", "MASTODON_ACCESS_TOKEN",
     "MASTODON_INSTANCE_URL", "RSS_FEED_URL"}

\* os.environ.get(name): None when the variable is unset, or its value,
\* which may be the empty string.
Environments == [RequiredVars -> {"unset", "empty", "set"}]

\* A check that asks only whether each variable is there.
is_configured_if_present(env) == \A v \in RequiredVars : env[v] # "unset"

\* `all([MASTODON_CLIENT_ID, ..., RSS_FEED_URL])`: None and the empty string
\* are both falsy.
is_configured(env) == \A v \in RequiredVars : env[v] = "set"

\* The process at its start: the environment, and the status it has exited
\* with, None as long as it has not.
Startup(env, status) == [env |-> env, status |-> status]

InitStartup ==
    /\ NoTracker
    /\ NoDriver
    /\ program = "main"
    /\ state_file = NoFile
    /\ pc = "start"
    /\ feed = NoFeeds
    /\ ran = NoRun
    /\ prev = NoPrev
    /\ posted_before = {}
    /\ failed_before = {}
    /\ io_failed = FALSE
    /\ store = <<>>
    /\ ring = <<>>
    /\ startup \in {Startup(env, None) : env \in Environments}
    /\ feed_list = <<>>

\* `if not all([...]): print(...); exit(1)`.
Configure ==
    /\ pc = "start"
    /\ IF is_configured(startup.env)
       THEN pc' = "login" /\ UNCHANGED startup
       ELSE pc' = "exited" /\ startup' = Startup(startup.env, Some(1))
    /\ UNCHANGED <<program, feeds_state, tracker, driver, store, ring, feed_list>>

\* Mastodon(...) and account_verify_credentials() in a try whose except
\* prints and calls exit(1); after it the module goes on to its loop.
Login ==
    /\ pc = "login"
    /\ \E verified \in BOOLEAN :
         IF verified
         THEN pc' = "idle" /\ UNCHANGED startup
         ELSE pc' = "exited" /\ startup' = Startup(startup.env, Some(1))
    /\ UNCHANGED <<program, feeds_state, tracker, driver, store, ring, feed_list>>

NextStartup == Configure \/ Login \/ CheckAndPostNewItems \/ Sleep

SpecStartup == InitStartup /\ [][NextStartup]_vars

\* ------------------------------------------------ the feed list of a bot

\* text.split(sep), sep one character: the pieces between the separators,
\* the empty ones too.
RECURSIVE split(_, _, _)
split(text, sep, piece) ==
    IF text = <<>> THEN <<piece>>
    ELSE IF Head(text) = sep THEN <<piece>> \o split(Tail(text), sep, <<>>)
    ELSE split(Tail(text), sep, piece \o <<Head(text)>>)

\* A merge that keeps the last occurrence of each URL, not the first.
RECURSIVE unique_keeping_last(_)
unique_keeping_last(urls) ==
    IF urls = <<>> THEN <<>>
    ELSE IF Head(urls) \in Range(Tail(urls)) THEN unique_keeping_last(Tail(urls))
    ELSE <<Head(urls)>> \o unique_keeping_last(Tail(urls))

\* First-seen order, re-occurrences dropped.
RECURSIVE unique(_)
unique(urls) ==
    IF urls = <<>> THEN <<>>
    ELSE LET rest == unique(SubSeq(urls, 1, Len(urls) - 1))
             last == urls[Len(urls)]
         IN  IF last \in Range(rest) THEN rest ELSE rest \o <<last>>

\* The legacy single URL: one item when it is set.
legacy_items(url) == IF url = <<>> THEN <<>> ELSE <<url>>

\* The comma-separated list: its items trimmed, the empty ones left out.
list_items(text) ==
    LET Filled(item) == item # <<>>
    IN  SelectSeq(trimmed(split(text, ",", <<>>)), Filled)

\* The feed-list file, when there is one: one URL per line, blank lines and
\* lines starting with "#" ignored.
file_items(file) ==
    LET Url(line) == line # <<>> /\ Head(line) # "#"
    IN  IF file.exists THEN SelectSeq(trimmed(splitlines(file.text)), Url) ELSE <<>>

\* What the three sources name, in the order they are merged in.
source_items(legacy, list, file) ==
    legacy_items(legacy) \o list_items(list) \o file_items(file)

\* The feed list of the bot: the three sources merged.
merge_feed_sources(legacy, list, file) == unique(source_items(legacy, list, file))

\* The sources as they may be configured.
LegacyUrls == {<<>>, <<"A">>, <<"B">>}

FeedLists ==
    {<<>>, <<"A", ",", "B">>, <<"A", ",", SP, "B">>, <<SP, "B", SP, ",", "A">>,
     <<"B", ",", ",", "C">>, <<"C", ",", "A", ",", "C">>}

FeedListFiles ==
    {NoFile, FileWith(<<"B", LF, "C">>), FileWith(<<"#", "A", LF, "B", LF, LF, "C", LF>>),
     FileWith(<<"C", LF, SP, "B", LF, "C">>), FileWith(<<>>)}

\* The sources of a feed list, and the list built from them (None before).
FeedList(legacy, list, file, urls) ==
    [legacy |-> legacy, list |-> list, file |-> file, urls |-> urls]

InitFeedList ==
    /\ NoTracker
    /\ NoDriver
    /\ program = "bot"
    /\ state_file = NoFile
    /\ pc = "start"
    /\ feed = NoFeeds
    /\ ran = NoRun
    /\ prev = NoPrev
    /\ posted_before = {}
    /\ failed_before = {}
    /\ io_failed = FALSE
    /\ store = <<>>
    /\ ring = <<>>
    /\ startup = <<>>
    /\ feed_list \in {FeedList(legacy, list, file, <<>>)
                        : legacy \in LegacyUrls, list \in FeedLists, file \in FeedListFiles}

\* The entry point builds the feed list it hands to the bot.
MergeFeedSources ==
    /\ pc = "start"
    /\ feed_list' = [feed_list EXCEPT
                        !.urls = merge_feed_sources(feed_list.legacy, feed_list.list,
                                                    feed_list.file)]
    /\ pc' = "merged"
    /\ UNCHANGED <<program, feeds_state, tracker, driver, store, ring, startup>>

NextFeedList == MergeFeedSources

SpecFeedList == InitFeedList /\ [][NextFeedList]_vars

\* ------------------------------------------------------------------ claims

\* The non-empty links among the entries the tick's parses returned.
FetchedLinks == UNION {Range(feed[f].entries) : f \in DOMAIN feed} \ {NoLink}

\* How many posts of the tick returned for link x.
TimesPostedOk(posts, x) == Cardinality({i \in DOMAIN posts : posts[i].ok /\ posts[i].link = x})

\* C1 as stated: after a tick, every link a post failed for is absent from
\* processed_entries and every link a post succeeded for is present.
C1_AsStated ==
    pc = "ran" =>
        \A i \in DOMAIN ran.posts :
            /\ ran.posts[i].ok => ran.posts[i].link \in ran.processed_entries
            /\ ~ran.posts[i].ok => ran.posts[i].link \notin ran.processed_entries

\* C1, amended: after a tick, a link is in processed_entries if some post of
\* the tick succeeded for it, and absent if posts were made for it and every
\* one of them failed (a link met twice in the pass is posted again after a
\* failure, and the second post may succeed).
C1_PostedIffAccepted ==
    pc = "ran" =>
        /\ \A x \in PostedOk(ran.posts) : x \in ran.processed_entries
        /\ \A x \in PostedFailed(ran.posts) \ PostedOk(ran.posts) :
              x \notin ran.processed_entries

C1_Witness ==
    /\ pc = "ran"
    /\ PostedOk(ran.posts) # {}
    /\ PostedFailed(ran.posts) \ PostedOk(ran.posts) # {}
    /\ PostedFailed(ran.posts) \cap PostedOk(ran.posts) # {}

C4_FailedPostIsRetried ==
    (program = "bot" /\ pc = "ran") =>
        \A x \in failed_before \ posted_before :
            /\ x \notin ran.loaded
            /\ x \in FetchedLinks => x \in PostedOk(ran.posts) \cup PostedFailed(ran.posts)

C4_Witness ==
    /\ program = "bot"
    /\ pc = "ran"
    /\ \E x \in failed_before \ posted_before :
          /\ x \in PostedFailed(ran.posts) \ PostedOk(ran.posts)
          /\ ran.loaded # {}

\* The posts of the tick that were made for an entry of feed f.
PostsOfFeed(f) == {i \in DOMAIN ran.posts : ran.posts[i].feed = f}

\* C5: a pass of bot.py over all the feeds calls save_processed_entries once
\* when it accepted an entry (however many feeds accepted entries came from),
\* and when it accepted none it calls no save and leaves the state file as it
\* was.
C5_SavedOncePerPass ==
    [][(program = "bot" /\ pc = "idle" /\ pc' = "ran") =>
          /\ ran'.count > 0 => ran'.saves = 1
          /\ ran'.count = 0 => (ran'.saves = 0 /\ state_file' = state_file)]_vars

C5_Witness ==
    /\ program = "bot"
    /\ pc = "ran"
    /\ \E i \in PostsOfFeed(1), j \in PostsOfFeed(2) : ran.posts[i].ok /\ ran.posts[j].ok
    /\ ran.saves = 1
    /\ ran.save_ok
    /\ state_file.exists

\* C6: in a pass of bot.py whose posts all succeed, the links posted are the
\* non-empty links of the fetched entries that the loaded store lacks, each
\* posted once; the count returned is their number; and the store ends as the
\* loaded store with every non-empty fetched link added.
C6_PostsExactlyTheNew ==
    (program = "bot" /\ pc = "ran" /\ PostedFailed(ran.posts) = {}) =>
        /\ PostedOk(ran.posts) = FetchedLinks \ ran.loaded
        /\ \A x \in PostedOk(ran.posts) : TimesPostedOk(ran.posts, x) = 1
        /\ ran.count = Cardinality(FetchedLinks \ ran.loaded)
        /\ ran.processed_entries = ran.loaded \cup FetchedLinks

C6_Witness ==
    /\ program = "bot"
    /\ pc = "ran"
    /\ PostedFailed(ran.posts) = {}
    /\ ran.loaded \cap FetchedLinks # {}
    /\ ran.count = 1
    /\ \E f \in DOMAIN feed : Len(feed[f].entries) > Cardinality(Range(feed[f].entries))

\* C7: a tick of main.py makes at most one post, and only for entry 0; when
\* the link of entry 0 is in the loaded store it posts nothing and leaves the
\* store and the state file as they were, whatever the later entries are.
C7_LatestOnly ==
    [][(program = "main" /\ pc = "idle" /\ pc' = "ran") =>
          /\ Len(ran'.posts) <= 1
          /\ \A i \in DOMAIN ran'.posts :
                ran'.posts[i].idx = 1 /\ ran'.posts[i].link = feed'[1].entries[1]
          /\ (feed'[1].entries # <<>> /\ feed'[1].entries[1] \in ran'.loaded) =>
                /\ ran'.posts = <<>>
                /\ ran'.processed_entries = ran'.loaded
                /\ ran'.saves = 0
                /\ state_file' = state_file]_vars

C7_Witness ==
    /\ program = "main"
    /\ pc = "ran"
    /\ Len(feed[1].entries) > 1
    /\ feed[1].entries[1] \in ran.loaded
    /\ feed[1].entries[2] \in EntryLinks \ ran.loaded
    /\ ran.posts = <<>>

\* The number of posts of the tick that succeeded.
NumPostedOk(posts) == Cardinality({i \in DOMAIN posts : posts[i].ok})

\* The links the tick called status_post for.
Invoked(posts) == PostedOk(posts) \cup PostedFailed(posts)

\* C8: an entry whose link is empty or missing is dropped: no post is made
\* for it, the empty link is not added to the store, and it is not counted
\* (the count is the number of posts that succeeded); in a pass of bot.py the
\* other entries of its feed are still processed, each being in the loaded
\* store or posted.
C8_EmptyLinkDropped ==
    pc = "ran" =>
        /\ \A i \in DOMAIN ran.posts : ran.posts[i].link # NoLink
        /\ NoLink \notin ran.processed_entries
        /\ ran.count = NumPostedOk(ran.posts)
        /\ program = "bot" =>
              \A f \in DOMAIN feed :
                  NoLink \in Range(feed[f].entries) =>
                      \A x \in Range(feed[f].entries) \ {NoLink} :
                          x \in ran.loaded \cup Invoked(ran.posts)

C8_Witness ==
    /\ program = "bot"
    /\ pc = "ran"
    /\ \E f \in DOMAIN feed :
          /\ Len(feed[f].entries) > 1
          /\ feed[f].entries[1] = NoLink
          /\ \E i \in PostsOfFeed(f) : ran.posts[i].idx = 2 /\ ran.posts[i].ok
    /\ ran.count = 1

\* C9: in a pass of bot.py a feed that could not be fetched or parsed, or that
\* has no entries, adds no post; the pass raises nothing and goes on to the
\* other feeds: each of their non-empty links is in the loaded store or
\* posted, and the links posted with success are accepted in the same pass.
C9_FailedFeedIsSkipped ==
    (program = "bot" /\ pc = "ran") =>
        /\ ~ran.crashed
        /\ \A f \in DOMAIN feed :
              (~feed[f].parsed \/ feed[f].entries = <<>>) => PostsOfFeed(f) = {}
        /\ \A f \in DOMAIN feed :
              \A x \in Range(feed[f].entries) \ {NoLink} :
                  x \in ran.loaded \cup Invoked(ran.posts)
        /\ PostedOk(ran.posts) \subseteq ran.processed_entries
        /\ ran.count = NumPostedOk(ran.posts)

C9_Witness ==
    /\ program = "bot"
    /\ pc = "ran"
    /\ ~feed[1].parsed
    /\ \E i \in PostsOfFeed(2) : ran.posts[i].ok
    /\ ran.count > 1

\* C10: in a pass of bot.py the posts are made feed by feed in the order of
\* feed_urls, and within a feed in the order of its entries: each post is for
\* the entry at its place in its feed, and a later post is for a later feed or
\* for a later entry of the same feed.
C10_PostsInFeedOrder ==
    (program = "bot" /\ pc = "ran") =>
        /\ \A i \in DOMAIN ran.posts :
              /\ ran.posts[i].feed \in DOMAIN feed
              /\ ran.posts[i].idx \in DOMAIN feed[ran.posts[i].feed].entries
              /\ ran.posts[i].link = feed[ran.posts[i].feed].entries[ran.posts[i].idx]
        /\ \A i, j \in DOMAIN ran.posts :
              i < j =>
                  \/ ran.posts[i].feed < ran.posts[j].feed
                  \/ /\ ran.posts[i].feed = ran.posts[j].feed
                     /\ ran.posts[i].idx < ran.posts[j].idx

C10_Witness ==
    /\ program = "bot"
    /\ pc = "ran"
    /\ Len(ran.posts) > 2
    /\ ran.posts[1].feed = 1
    /\ ran.posts[2].feed = 1
    /\ ran.posts[1].link # ran.posts[2].link
    /\ ran.posts[3].feed = 2

\* C11: once last_notification_id holds an id, no step makes it hold a
\* smaller one or none: not a notification check that fetched nothing, and
\* not one that an exception ended.
C11_WatermarkNeverDecreases ==
    [][last_notification_id # None =>
          /\ last_notification_id' # None
          /\ last_notification_id'[1] >= last_notification_id[1]]_vars

C11_Witness ==
    /\ pc = "checked"
    /\ checked.before # None
    /\ checked.before[1] > 0
    /\ checked.raised
    /\ checked.batch # <<>>
    /\ last_notification_id[1] > checked.before[1]

\* C12 as stated: a first notification check makes no reply and no
\* dismissal and leaves the watermark at the id of the most recent mention,
\* or at 0 when there is none; no later check tries a reply for a mention
\* held before the first check.
C12_AsStated ==
    pc = "checked" =>
        /\ checked.first =>
              /\ checked.replies = <<>>
              /\ checked.dismissed = {}
              /\ last_notification_id =
                    IF mentions.held = {} THEN Some(0)
                    ELSE Some(Greatest(Ids(mentions.held)))
        /\ Tried(checked.replies) \cap told.old = {}

\* C12, amended: a first notification check makes no reply and no dismissal;
\* when its fetch returned it leaves the watermark at the id of the most
\* recent mention, or at 0 when there is none, and when its fetch raised it
\* leaves the watermark uninitialized; no later check tries a reply for a
\* mention held before the first check.
C12_FirstRunSeeds ==
    pc = "checked" =>
        /\ checked.first =>
              /\ checked.replies = <<>>
              /\ checked.dismissed = {}
              /\ ~checked.raised =>
                    last_notification_id =
                        IF mentions.held = {} THEN Some(0)
                        ELSE Some(Greatest(Ids(mentions.held)))
              /\ checked.raised => last_notification_id = None
        /\ Tried(checked.replies) \cap told.old = {}

C12_Witness ==
    /\ pc = "checked"
    /\ ~checked.first
    /\ Tried(checked.replies) # {}
    /\ Cardinality(told.old) > 1
    /\ \E n \in mentions.held : n.id \in told.old /\ n.status

\* The ids of the notes of a tick that reply_to_mention returned for.
Processed(replies) == Replied(replies, {"none", "posted", "failed"})

\* C13 as stated: after a notification check that an exception ended, the
\* watermark is the greatest of the watermark before and the ids of the notes
\* reply_to_mention returned for, and every note of the batch it did not
\* return for has an id above the watermark.
C13_AsStated ==
    (pc = "checked" /\ checked.raised /\ checked.before # None) =>
        /\ last_notification_id =
              Some(Greatest({checked.before[1]} \cup Processed(checked.replies)))
        /\ \A n \in Range(checked.batch) :
              n.id \notin Processed(checked.replies) => n.id > last_notification_id[1]

\* C14: a reply post that fails leaves the watermark at or above the
\* mention's id and does not end the tick (every note of the batch gets its
\* turn), and no later tick tries a reply for a mention whose reply post
\* failed.
C14_FailedReplyNotRetried ==
    pc = "checked" =>
        /\ Replied(checked.replies, {"failed"}) # {} =>
              /\ ~checked.raised
              /\ Len(checked.replies) = Len(checked.batch)
              /\ \A i \in DOMAIN checked.batch : checked.replies[i].id = checked.batch[i].id
              /\ \A id \in Replied(checked.replies, {"failed"}) :
                    last_notification_id[1] >= id
        /\ Tried(checked.replies) \cap told.failed = {}
        /\ \A i, j \in DOMAIN checked.replies :
              checked.replies[i].id = checked.replies[j].id => i = j

C14_Witness ==
    /\ pc = "checked"
    /\ Len(checked.replies) > 1
    /\ checked.replies[1].how = "failed"
    /\ checked.replies[2].how = "posted"
    /\ checked.replies[1].id > checked.replies[2].id
    /\ \E n \in mentions.held : n.id \in told.failed

\* C15 as stated: a feed check is not made again until check_interval
\* seconds have gone by since the feed check before it returned, however
\* long that one took.
C15_AsStated ==
    (pc = "loop" /\ iteration.feed = "returned") =>
        iteration.feed_gap >= check_interval

\* C16: in an iteration of the loop whose notification check is due and
\* whose feed check is not due, or is due and returns, the notification
\* check is made; and a notification check is made no sooner than
\* notification_check_interval seconds after the clock reading of the
\* iteration that made the one before.
C16_NotificationCheckNotStarved ==
    [][(/\ pc = "loop"
        /\ pc' = "loop"
        /\ iteration'.feed \in {"skipped", "returned"})
       => /\ is_due(next_notification_check) => iteration'.notification = "ran"
          /\ iteration'.notification = "ran" =>
                iteration'.notification_gap >= notification_check_interval]_vars

C16_Witness ==
    /\ pc = "loop"
    /\ notification_check_interval < check_interval
    /\ iteration.feed = "skipped"
    /\ iteration.notification = "ran"
    /\ iteration.notification_gap < check_interval
    /\ ~checked.first

\* C17 as stated: whenever the notification check is due in the running
\* loop, a notification check is made later on (or the loop is stopped by an
\* interrupt), whatever the feed checks do.
C17_AsStated ==
    [](pc = "loop" /\ is_due(next_notification_check)
          => <>(iteration.notification = "ran" \/ pc = "stopped"))

\* C18 as stated: no tick of either program ends with an exception that
\* leaves the loop.
C18_AsStated == pc = "ran" => ~ran.crashed

\* C19 as stated: when the loop has been left by an interrupt, the feed
\* check of its last iteration was not cut short, and if it accepted ids it
\* saved them.
C19_AsStated ==
    pc = "stopped" =>
        /\ iteration.feed # "interrupted"
        /\ iteration.count > 0 => iteration.saves > 0

\* The member set a state file holds: its lines, none when it is missing.
Members(file) == IF file.exists THEN Range(splitlines(file.text)) ELSE {}

\* C20 as stated: whatever a tick that read the state file did, a failed or
\* cut-short save included, the file holds afterwards either the member set
\* the tick loaded or the member set the tick arrived at.
C20_AsStated ==
    (pc = "ran" /\ ran.read_ok) =>
        Members(state_file) \in {ran.loaded, ran.processed_entries}

\* C21 as stated: a tick whose read of the state file met an error (any
\* but the file being absent, which is no error) goes on with the empty
\* store: no exception leaves the load.
C21_AsStated ==
    (pc = "ran" /\ ~ran.read_ok) => (ran.loaded = {} /\ ~ran.crashed)

\* C22: a pass of bot.py whose save failed raises nothing and returns the
\* number of its posts that succeeded, its store being the loaded one and
\* the links posted with success.
C22_FailedSaveNotFatal ==
    (program = "bot" /\ pc = "ran" /\ ~ran.save_ok) =>
        /\ ~ran.crashed
        /\ ran.saves = 1
        /\ ran.count = NumPostedOk(ran.posts)
        /\ ran.count > 0
        /\ ran.processed_entries = ran.loaded \cup PostedOk(ran.posts)

\* A pass whose save fails while it posts again a link that an earlier pass
\* had posted (and had failed to save).
C22_Witness ==
    /\ program = "bot"
    /\ pc = "ran"
    /\ ~ran.save_ok
    /\ PostedOk(ran.posts) \cap posted_before # {}
    /\ ran.loaded = {}
    /\ ~state_file.exists

\* An identifier as the state file can hold one on a line: not empty, and
\* with no line boundary inside.
IsIdentifier(id) == id # <<>> /\ \A i \in DOMAIN id : id[i] \notin LineBoundaries

\* C23: when a store of identifiers has been saved and loaded back, the save
\* and the read having raised nothing, the members loaded are the members
\* saved, whatever the file held before, and the directory of the state
\* file exists.
C23_SaveLoadRoundTrip ==
    (/\ pc = "loaded"
     /\ store.save_ok
     /\ store.read_ok
     /\ \A id \in store.entries : IsIdentifier(id))
    => (store.loaded = store.entries /\ store.dir)

C23_Witness ==
    /\ pc = "loaded"
    /\ store.save_ok
    /\ store.read_ok
    /\ store.entries = {<<"b">>, <<"a", "b">>}
    /\ store.loaded = store.entries
    /\ state_file.text = <<"a", "b", LF, "b">>

\* C24: a bounded store of capacity N never holds more than N identifiers,
\* nor one twice; when an identifier it does not hold is accepted into a
\* store holding N, exactly the oldest member is removed, the identifier is
\* in the store and the size is N.
C24_RingEvictsOldest ==
    /\ Len(ring.members) <= ring.capacity
    /\ \A i, j \in DOMAIN ring.members : ring.members[i] = ring.members[j] => i = j
    /\ (/\ pc = "accepted"
        /\ Len(ring.before) = ring.capacity
        /\ ring.accepted \notin Range(ring.before))
       => /\ Range(ring.before) \ Range(ring.members) = {ring.before[1]}
          /\ ring.accepted \in Range(ring.members)
          /\ Len(ring.members) = ring.capacity

C24_Witness ==
    /\ pc = "accepted"
    /\ ring.capacity > 1
    /\ Len(ring.before) = ring.capacity
    /\ ring.accepted \notin Range(ring.before)
    /\ ring.before[1] \notin Range(ring.members)
    /\ ring.members[1] = ring.before[2]

\* C25: with a required variable unset or empty (a credential, or the feed
\* URL) main.py never gets to its loop: it is at its start or has exited,
\* with a status that is not 0 once it has, and no feed was fetched, nothing
\* posted and no state file written.
C25_ConfigurationErrorIsFatal ==
    (\E v \in RequiredVars : startup.env[v] \in {"unset", "empty"}) =>
        /\ pc \in {"start", "exited"}
        /\ pc = "exited" => (startup.status # None /\ startup.status[1] # 0)
        /\ pc = "start" => startup.status = None
        /\ feed = NoFeeds
        /\ ran = NoRun
        /\ posted_before = {}
        /\ failed_before = {}
        /\ state_file = NoFile

\* The credentials are there and the feed URL is the empty string: exited.
C25_Witness ==
    /\ pc = "exited"
    /\ startup.status = Some(1)
    /\ startup.env["RSS_FEED_URL"] = "empty"
    /\ \A v \in RequiredVars \ {"RSS_FEED_URL"} : startup.env[v] = "set"

\* Where an item first occurs in a sequence that holds it.
FirstAt(items, x) == CHOOSE i \in DOMAIN items : items[i] = x /\ \A j \in 1..(i - 1) : items[j] # x

\* C26: the feed list holds every URL the three sources name and no other,
\* none twice, in the order of their first occurrence in the legacy URL, the
\* list and the file taken in that order; no URL of it begins or ends with a
\* blank; and the legacy URL A, the list "A,B" and a file of lines B and C
\* give exactly A, B, C.
C26_FeedListMerge ==
    pc = "merged" =>
        LET urls  == feed_list.urls
            named == source_items(feed_list.legacy, feed_list.list, feed_list.file)
        IN  /\ Range(urls) = Range(named)
            /\ \A i, j \in DOMAIN urls :
                  /\ urls[i] = urls[j] => i = j
                  /\ i < j => FirstAt(named, urls[i]) < FirstAt(named, urls[j])
            /\ \A i \in DOMAIN urls :
                  urls[i] # <<>> /\ Head(urls[i]) # SP /\ urls[i][Len(urls[i])] # SP
            /\ (/\ feed_list.legacy = <<"A">>
                /\ feed_list.list = <<"A", ",", "B">>
                /\ feed_list.file = FileWith(<<"B", LF, "C">>))
               => urls = <<<<"A">>, <<"B">>, <<"C">>>>
            /\ (feed_list.legacy = <<>> /\ feed_list.list = <<"A", ",", SP, "B">>)
               => SubSeq(urls, 1, 2) = <<<<"A">>, <<"B">>>>

C26_Witness ==
    /\ pc = "merged"
    /\ feed_list.legacy = <<"A">>
    /\ feed_list.list = <<"A", ",", "B">>
    /\ feed_list.file = FileWith(<<"B", LF, "C">>)
    /\ feed_list.urls = <<<<"A">>, <<"B">>, <<"C">>>>

\* C27: a notification check with a seeded watermark that no exception
\* ended fetched only mentions above the watermark, called reply_to_mention
\* once for each note of the batch, in the order of the batch, and leaves the
\* watermark at the greatest of the watermark before and the ids of the
\* batch, in whatever order the batch came.
C27_EveryMentionRepliedOnce ==
    (pc = "checked" /\ ~checked.first /\ ~checked.raised) =>
        /\ \A i \in DOMAIN checked.batch : checked.batch[i].id > checked.before[1]
        /\ \A i, j \in DOMAIN checked.batch :
              checked.batch[i].id = checked.batch[j].id => i = j
        /\ [i \in DOMAIN checked.replies |-> checked.replies[i].id]
              = [i \in DOMAIN checked.batch |-> checked.batch[i].id]
        /\ last_notification_id =
              Some(Greatest({checked.before[1]} \cup Ids(Range(checked.batch))))

\* A batch of three whose greatest id comes first and whose least comes second.
C27_Witness ==
    /\ pc = "checked"
    /\ ~checked.first
    /\ ~checked.raised
    /\ Len(checked.batch) = 3
    /\ checked.batch[1].id > checked.batch[3].id
    /\ checked.batch[3].id > checked.batch[2].id
    /\ last_notification_id = Some(checked.batch[1].id)
    /\ checked.replies[1].how = "posted"

\* The places in the replies of a check whose note reply_to_mention returned
\* for and whose dismissal raised.
Undismissed(c) ==
    {i \in DOMAIN c.replies :
        c.replies[i].how # "raised" /\ c.replies[i].id \notin c.dismissed}

\* C28: in a notification check with a seeded watermark, after a note whose
\* dismissal raised the next note of the batch, if there is one, gets its
\* reply like any other; the check is ended by an exception only when the
\* last reply it made raised; and the watermark is the greatest of the
\* watermark before and the ids of the notes gone through, as without the
\* failed dismissal.
C28_DismissalFailureSwallowed ==
    (pc = "checked" /\ ~checked.first /\ Undismissed(checked) # {}) =>
        /\ \A i \in Undismissed(checked) :
              i < Len(checked.batch) =>
                  /\ Len(checked.replies) > i
                  /\ checked.replies[i + 1].id = checked.batch[i + 1].id
        /\ checked.raised =>
              checked.replies[Len(checked.replies)].how = "raised"
        /\ ~checked.raised => Len(checked.replies) = Len(checked.batch)
        /\ last_notification_id =
              Some(Greatest({checked.before[1]}
                            \cup {checked.replies[i].id : i \in DOMAIN checked.replies}))

\* The dismissal of the first note raised; the second got its reply and
\* was dismissed.
C28_Witness ==
    /\ pc = "checked"
    /\ ~checked.raised
    /\ Len(checked.replies) = 2
    /\ 1 \in Undismissed(checked)
    /\ checked.replies[1].how = "posted"
    /\ checked.replies[2].how = "posted"
    /\ checked.replies[2].id \in checked.dismissed
    /\ checked.replies[1].id < checked.replies[2].id

\* C29: the list of messages a bot holds is never empty, whatever the
\* messages file is (missing, unreadable, or of blank lines only), so
\* choosing a reply to a mention never fails.
C29_AsStated ==
    pc = "checked" =>
        /\ sarcastic_messages # <<>>
        /\ \A i \in DOMAIN checked.replies : checked.replies[i].how # "raised"

\* C30: within one pass of bot.py, a link that was posted successfully is not
\* posted again, neither from a later entry of the same feed nor from a later
\* feed: every link is successfully posted at most once in the pass.
C30_PostedAtMostOncePerPass ==
    (program = "bot" /\ pc = "ran") =>
        /\ \A x \in EntryLinks : TimesPostedOk(ran.posts, x) <= 1
        /\ \A i, j \in DOMAIN ran.posts :
              (i < j /\ ran.posts[i].ok) => ran.posts[j].link # ran.posts[i].link

\* A pass over two feeds that both hold the same link, posted from the first
\* feed, and over a feed that holds a link twice, posted from its first entry.
C30_Witness ==
    /\ program = "bot"
    /\ pc = "ran"
    /\ \E x \in EntryLinks :
          /\ feed[1].parsed /\ feed[2].parsed
          /\ x \in Range(feed[1].entries) /\ x \in Range(feed[2].entries)
          /\ \E i \in DOMAIN ran.posts :
                ran.posts[i].ok /\ ran.posts[i].link = x /\ ran.posts[i].feed = 1
    /\ \E y \in EntryLinks, f \in DOMAIN feed :
          /\ feed[f].parsed
          /\ feed[f].entries = <<y, y>>
          /\ \E i \in DOMAIN ran.posts :
                ran.posts[i].ok /\ ran.posts[i].link = y /\ ran.posts[i].idx = 1

\* C31: the state file never loses a member: whatever a feed check does
\* (the load failing, posts failing, the save failing), every id the file held
\* before the tick is in the file after it.
C31_AsStated == [][Members(state_file) \subseteq Members(state_file')]_vars

\* C32: over the notification checks of one process, checks that an
\* exception ended among them, status_post is called at most once for a
\* mention: not twice in one check, and not in a check after the one that
\* called it, the server handing out only mentions above since_id.
C32_NoMentionRepliedTwice ==
    pc = "checked" =>
        /\ Tried(checked.replies) \cap told.tried = {}
        /\ \A i, j \in DOMAIN checked.replies :
              (i # j /\ checked.replies[i].how \in {"posted", "failed"})
                  => checked.replies[j].id # checked.replies[i].id

\* A check that posts a reply, after a check that an exception ended and
\* after a check that replied to a mention the server still holds.
C32_Witness ==
    /\ pc = "checked"
    /\ told.raised
    /\ Replied(checked.replies, {"posted"}) # {}
    /\ \E n \in mentions.held : n.status /\ n.id \in told.tried

\* C33: a first-run fetch that raises leaves the watermark uninitialized and
\* sends no reply; until a first-run fetch has returned, every check is a
\* first run again and the watermark stays uninitialized between the checks;
\* a check calls reply_to_mention only after a first-run fetch has returned,
\* and never in the check of that fetch.
C33_SeedingIsRetried ==
    /\ (pc = "idle" /\ ~told.seeded) => last_notification_id = None
    /\ pc = "checked" =>
          /\ (checked.before = None /\ checked.raised) =>
                /\ last_notification_id = None
                /\ checked.replies = <<>>
                /\ checked.dismissed = {}
          /\ ~told.seeded =>
                /\ checked.before = None
                /\ checked.first
                /\ checked.replies = <<>>
          /\ checked.replies # <<>> => (told.seeded /\ checked.before # None)

\* A first-run fetch raised while the server held a mention, a later one
\* returned, and a check after it posts a reply.
C33_Witness ==
    /\ pc = "checked"
    /\ told.seed_raised
    /\ told.seeded
    /\ told.old # {}
    /\ Replied(checked.replies, {"posted"}) # {}

====
